---- MODULE Spec2Model ----
(***************************************************************************)
(* The evaluation engine of the Markdown rule linter: the promise pool     *)
(* (runPool), the oracle call with retry/backoff (callModel), the per-file *)
(* rule fan-out (lintOne) and the run over all files with its summary      *)
(* (main).  One state of the model is the state of the program between two *)
(* turns of the JavaScript event loop: an action is one event (a file read *)
(* completes, an oracle call returns, a backoff timer fires) together with *)
(* every synchronous continuation that the event triggers.                 *)
(***************************************************************************)
EXTENDS Integers, Sequences, FiniteSets, TLC

\* ------------------------------------------------------------- bounds
\* A run has at most MaxTasks (file, rule) pairs; a limit is at most MaxConcurrency.
MaxTasks == 4
MaxConcurrency == 3
\* In a run over many tasks the transport answers with a rate-limit or server
\* error at most MaxOutages times.
MaxOutages == 1
\* A run whose transport may fail every call has at most MaxFairTasks
\* (file, rule) pairs.
MaxFairTasks == 2
\* A rule result of a report has at most MaxFixes suggested fixes, and the
\* report script locates the line of one result at most MaxCalls times.
MaxFixes == 2
MaxCalls == 2
\* The texts that are searched exhaustively have at most MaxSrcLen characters
\* and the quotations sought in them at most MaxNeedleLen.
MaxSrcLen == 4
MaxNeedleLen == 2

\* ------------------------------------------------------------- constants
MAX_RETRIES == 3
DEFAULT_FILE_CONCURRENCY == 100
DEFAULT_RULE_CONCURRENCY == 50
\* Math.random() * 200 is at least 0 and below 200: its ends, in whole
\* milliseconds.
Jitters == {0, 199}
NoStatus == 0

FileNames == <<"a.md", "b.md", "c.md", "d.md", "e.md", "f.md", "g.md", "h.md">>
RuleNames == <<"rule_a", "rule_b", "rule_c", "rule_d", "rule_e", "rule_f", "rule_g", "rule_h">>

Min(a, b) == IF a < b THEN a ELSE b

\* ------------------------------------------------------------- values
\* JavaScript values: of the configuration, of a fix and of its fields.  A
\* number is kept as the count of its halves, so that 0.5 and 2.5 are numbers
\* of the model.
Undefined == [t |-> "undefined"]
Null == [t |-> "null"]
NaN == [t |-> "nan"]
Num(halves) == [t |-> "number", halves |-> halves]
Str(s) == [t |-> "string", s |-> s]
\* The number n, an integer.
Whole(n) == Num(2 * n)
\* Math.floor of a number.
Floor(v) == v.halves \div 2

\* An empty slot of `new Array(n)`.
Empty == [empty |-> TRUE]
NoPool == [pool |-> FALSE]
NoReply == [kind |-> "none"]
NoSummary == [summary |-> FALSE]

\* A response text, by what JSON.parse makes of it.
ObjectText(id, pass) ==
    [json |-> "object", id |-> id, pass |-> pass,
     rationale |-> <<"because">>, suggested_fixes |-> <<"rewrite it">>]
InvalidText == [json |-> "invalid"]
NullText == [json |-> "null"]

\* What the transport can answer to one chat.completions.create call.
OkReply(text) == [kind |-> "ok", text |-> text]
ErrReply(status, errorType, type, message) ==
    [kind |-> "err", status |-> status, errorType |-> errorType,
     type |-> type, message |-> message]

Pass == OkReply(ObjectText("rule_a", "true"))
Fail == OkReply(ObjectText("someone_else", "false"))
\* A JSON object without an id / whose pass is the string "false", no boolean.
PassNoId == OkReply(ObjectText("undefined", "true"))
FailAsString == OkReply(ObjectText("rule_a", "\"false\""))
Err429 == ErrReply(429, "", "", "429 rate limited")
Err500 == ErrReply(500, "", "", "500 server error")
Err503 == ErrReply(503, "server_error", "", "503 unavailable")
Err400 == ErrReply(400, "invalid_request_error", "", "400 bad request")
Err402 == ErrReply(402, "", "", "402 payment required")
ErrQuota == ErrReply(429, "insufficient_quota", "", "429 quota exceeded")
ErrQuota500 == ErrReply(500, "", "insufficient_quota", "500 quota exceeded")
ErrQuotaTop == ErrReply(NoStatus, "", "insufficient_quota", "quota exceeded")
ErrNetwork == ErrReply(NoStatus, "", "", "connection reset")
BadJson == OkReply(InvalidText)
NullJson == OkReply(NullText)

\* A transport that may answer with a rate-limit or server error every time.
Endless == -1

\* The transport's rate-limit and server errors.
Outage(reply) ==
    reply.kind = "err" /\ (reply.status = 429 \/ reply.status >= 500)

SchedulerReplies == {Pass, Err402, Err429}
AllReplies ==
    {Pass, Fail, PassNoId, FailAsString, BadJson, NullJson, Err429, Err500, Err503, Err400, Err402,
     ErrQuota, ErrQuota500, ErrQuotaTop, ErrNetwork}

VARIABLES
    targets,            \* main: the files to lint, targets[k] for k in 0..D-1
    rules,              \* main: the loaded rules, rules[j].id for j in 0..R-1
    FILE_CONCURRENCY,   \* limit of the pool over files
    RULE_CONCURRENCY,   \* limit of the pool over the rules of one file
    replies,            \* what the oracle transport may answer in this run
    outages,            \* how many rate-limit or server errors the transport may still answer (Endless: any number)
    filePool,           \* runPool(fileTasks, FILE_CONCURRENCY): i, workers, results
    rulePool,           \* rulePool[k]: runPool(tasks, RULE_CONCURRENCY) of lintOne(targets[k])
    file,               \* file[k]: where fileTasks[k] stands
    call,               \* call[k][j]: where callModel of rule j on file k stands
    summary,            \* main: the summary object, once computed
    src,                \* json_to_junit: the text of the file a rule result is about
    fixesArr,           \* json_to_junit: the suggested_fixes of that rule result
    returned,           \* json_to_junit: what the calls deriveLine(src, fixesArr) returned
    quotation,          \* json_to_junit: the needle handed to findLineSmart
    ln,                 \* json_to_junit: what findLineSmart(src, quotation) returned
    cli,                \* parseCLI: fileConcurrency and ruleConcurrency as configured
    jitters             \* what Math.random() * 200 may be in this run

vars == <<targets, rules, FILE_CONCURRENCY, RULE_CONCURRENCY, replies, outages,
          filePool, rulePool, file, call, summary, src, fixesArr, returned,
          quotation, ln, cli, jitters>>

NumTargets == Cardinality(DOMAIN targets)
NumRules == Cardinality(DOMAIN rules)

\* ------------------------------------------------------------- runPool
\* Mutants of the cursor: it is read without being advanced / advanced twice.
NextIndexStuck(i) == i
NextIndexSkip(i) == i + 2

\* `const idx = i++`: the cursor after one claim.
NextIndex(i) == i + 1

\* The cursor after c claims, starting from `let i = 0`.
RECURSIVE CursorAfter(_)
CursorAfter(c) == IF c = 0 THEN 0 ELSE NextIndex(CursorAfter(c - 1))

\* Mutant: one worker more than the limit.
WorkerCountPlusOne(limit, n) == IF limit = NaN THEN 0 ELSE Min(Floor(limit) + 1, n)

\* Mutant: one worker per task, whatever the limit.
WorkerCountUnbounded(limit, n) == n

\* `Array.from({ length: Math.min(limit, tasks.length) }, () => worker())`
\* Math.min is NaN when the limit is, and an array of length NaN is empty;
\* the length of the array is the integer part of the minimum.
WorkerCount(limit, n) == IF limit = NaN THEN 0 ELSE Min(Floor(limit), n)

\* runPool up to `await Promise.all(workers)`: every worker is started in turn
\* and runs synchronously up to its first await, so the c-th worker claims an
\* index, passes the `idx >= tasks.length` test and invokes the task.  The
\* workers are closures without identity: the pool records, for every index,
\* how many workers hold it in their local `idx` while awaiting its task
\* (held), how often it was drawn from the cursor (claims) and how often its
\* task was invoked (invoked).
PoolStart(n, limit) ==
    LET m == WorkerCount(limit, n)
        drawn(x) == Cardinality({c \in 1..m : CursorAfter(c - 1) = x})
    IN  [n |-> n,
         i |-> CursorAfter(m),
         workers |-> m,
         held |-> [x \in 0..(n - 1) |-> drawn(x)],
         results |-> [x \in 0..(n - 1) |-> Empty],
         claims |-> [x \in 0..(n - 1) |-> drawn(x)],
         invoked |-> [x \in 0..(n - 1) |-> drawn(x)]]

\* Mutant: the value is appended in completion order (`results.push(value)`).
PoolResolveAppend(pool, idx, value) ==
    LET new == pool.i
        live == new < pool.n
        freed == [pool.held EXCEPT ![idx] = @ - 1]
        slot == CHOOSE x \in DOMAIN pool.results :
                   /\ pool.results[x] = Empty
                   /\ \A y \in DOMAIN pool.results : y < x => pool.results[y] # Empty
    IN  [pool EXCEPT
            !.results = [@ EXCEPT ![slot] = value],
            !.i = pool.i + 1,
            !.held = IF live THEN [freed EXCEPT ![new] = @ + 1] ELSE freed,
            !.claims = IF live THEN [@ EXCEPT ![new] = @ + 1] ELSE @,
            !.invoked = IF live THEN [@ EXCEPT ![new] = @ + 1] ELSE @]

\* The continuation of the worker awaiting tasks[idx] when that task resolves
\* with value: `results[idx] = value`, then the next turn of the loop,
\* `idx = i++`, and either `break` (idx >= tasks.length) or the invocation of
\* tasks[idx].
PoolResolve(pool, idx, value) ==
    LET new == pool.i
        live == new < pool.n
        freed == [pool.held EXCEPT ![idx] = @ - 1]
    IN  [pool EXCEPT
            !.results = [@ EXCEPT ![idx] = value],
            !.i = NextIndex(pool.i),
            !.held = IF live THEN [freed EXCEPT ![new] = @ + 1] ELSE freed,
            !.claims = IF live THEN [@ EXCEPT ![new] = @ + 1] ELSE @,
            !.invoked = IF live THEN [@ EXCEPT ![new] = @ + 1] ELSE @]

\* The indices whose task has been invoked and has not resolved yet.
Running(pool) == {x \in DOMAIN pool.held : pool.held[x] > 0}
\* Every worker has left its loop: `await Promise.all(workers)` resolves.
PoolDone(pool) == Running(pool) = {}

\* ------------------------------------------------------------- callModel
\* `err?.error?.type || err?.type`
ErrType(err) == IF err.errorType # "" THEN err.errorType ELSE err.type

\* Mutant: only the status is looked at.
IsFatalStatusOnly(err) == err.status = 402

\* `type === 'insufficient_quota' || code === 402`
IsFatal(err) == ErrType(err) = "insufficient_quota" \/ err.status = 402

\* Mutant: every client or server error status counts as transient.
IsTransientAnyError(err) == err.status # NoStatus /\ err.status >= 400

\* `code === 429 || (code && code >= 500)`
IsTransient(err) ==
    err.status = 429 \/ (err.status # NoStatus /\ err.status >= 500)

\* Mutant: the retry budget is never looked at.
MayRetryAlways(attempt) == TRUE

\* Mutant: off by one.
MayRetryOnceMore(attempt) == attempt <= MAX_RETRIES

\* `attempt < MAX_RETRIES`, tested after `attempt++`
MayRetry(attempt) == attempt < MAX_RETRIES

\* `new Error('INSUFFICIENT_QUOTA')` with insufficient_quota = true
QuotaError == [message |-> "INSUFFICIENT_QUOTA", insufficient_quota |-> TRUE]
\* `throw err`: the transport's error as it is
Rethrown(err) == [message |-> err.message, insufficient_quota |-> FALSE]

\* Mutant: the retry test comes before the quota test.
CallModelStepRetryFirst(attempt, reply) ==
    IF reply.kind = "ok"
    THEN [next |-> "return", attempt |-> attempt, text |-> reply.text]
    ELSE LET a == attempt + 1 IN
         IF (reply.status = 429 \/ (reply.status # NoStatus /\ reply.status >= 500))
            /\ a < MAX_RETRIES
         THEN [next |-> "backoff", attempt |-> a]
         ELSE IF ErrType(reply) = "insufficient_quota" \/ reply.status = 402
         THEN [next |-> "throw", attempt |-> a,
               error |-> [message |-> "INSUFFICIENT_QUOTA", insufficient_quota |-> TRUE]]
         ELSE [next |-> "throw", attempt |-> a,
               error |-> [message |-> reply.message, insufficient_quota |-> FALSE]]

\* Mutant: an error of an earlier turn is remembered and thrown once the loop ends.
CallModelStepSticky(attempt, reply) ==
    IF reply.kind = "ok"
    THEN IF attempt = 0
         THEN [next |-> "return", attempt |-> attempt, text |-> reply.text]
         ELSE [next |-> "throw", attempt |-> attempt,
               error |-> [message |-> "earlier attempt failed", insufficient_quota |-> FALSE]]
    ELSE LET a == attempt + 1 IN
         IF ErrType(reply) = "insufficient_quota" \/ reply.status = 402
         THEN [next |-> "throw", attempt |-> a,
               error |-> [message |-> "INSUFFICIENT_QUOTA", insufficient_quota |-> TRUE]]
         ELSE IF (reply.status = 429 \/ (reply.status # NoStatus /\ reply.status >= 500))
                 /\ a < MAX_RETRIES
         THEN [next |-> "backoff", attempt |-> a]
         ELSE [next |-> "throw", attempt |-> a,
               error |-> [message |-> reply.message, insufficient_quota |-> FALSE]]

\* One turn of callModel's loop on the transport's answer: the content is
\* returned, or the catch block counts the attempt and then throws the quota
\* error, sleeps before another turn, or rethrows.
CallModelStep(attempt, reply) ==
    IF reply.kind = "ok"
    THEN [next |-> "return", attempt |-> attempt, text |-> reply.text]
    ELSE LET a == attempt + 1 IN
         IF IsFatal(reply)
         THEN [next |-> "throw", attempt |-> a, error |-> QuotaError]
         ELSE IF IsTransient(reply) /\ MayRetry(a)
         THEN [next |-> "backoff", attempt |-> a]
         ELSE [next |-> "throw", attempt |-> a, error |-> Rethrown(reply)]

\* Mutant: the same base delay before every retry.
BackoffFlat(attempt, jitter) == 300 + jitter

\* `300 * Math.pow(2, attempt - 1) + Math.random() * 200`, attempt already
\* incremented for the failed call; jitter stands for Math.random() * 200.
Backoff(attempt, jitter) == 300 * 2^(attempt - 1) + jitter

\* ------------------------------------------------------------- lintOne
\* Mutants: the synthetic result of runRuleWithLogs's own catch block, which
\* has no hint / the same rationale for every error.
FailedCallNoHint(ruleId, e) ==
    [id |-> ruleId, pass |-> "false",
     rationale |-> IF e.insufficient_quota
                   THEN <<"LLM call failed: insufficient quota.">>
                   ELSE <<"LLM call failed: ", e.message>>,
     suggested_fixes |-> <<>>]
FailedCallOneRationale(ruleId, e) ==
    [id |-> ruleId, pass |-> "false",
     rationale |-> <<"LLM call failed: ", e.message>>,
     suggested_fixes |-> <<"Verify API key/org; try again.">>]

\* The catch block of the rule task: the synthetic failing result.
FailedCall(ruleId, e) ==
    [id |-> ruleId,
     pass |-> "false",
     rationale |-> IF e.insufficient_quota
                   THEN <<"LLM call failed: insufficient quota.">>
                   ELSE <<"LLM call failed: ", e.message>>,
     suggested_fixes |-> <<"Verify API key/org; try again.">>]

\* Mutant: the parsed object is returned with the id the oracle wrote.
ParseNoStamp(ruleId, text) ==
    IF text.json = "invalid"
    THEN [thrown |-> TRUE,
          error |-> [message |-> "Unexpected token in JSON", insufficient_quota |-> FALSE]]
    ELSE IF text.json = "null"
    THEN [thrown |-> TRUE,
          error |-> [message |-> "Cannot set properties of null", insufficient_quota |-> FALSE]]
    ELSE [thrown |-> FALSE,
          value |-> [id |-> text.id, pass |-> text.pass,
                     rationale |-> text.rationale,
                     suggested_fixes |-> text.suggested_fixes]]

\* JSON.parse(json) followed by `parsed.id = rule.id`: a SyntaxError for text
\* that is no JSON, a TypeError for the value null, else the object with its
\* id overwritten.
ParseAndStamp(ruleId, text) ==
    IF text.json = "invalid"
    THEN [thrown |-> TRUE,
          error |-> [message |-> "Unexpected token in JSON", insufficient_quota |-> FALSE]]
    ELSE IF text.json = "null"
    THEN [thrown |-> TRUE,
          error |-> [message |-> "Cannot set properties of null", insufficient_quota |-> FALSE]]
    ELSE [thrown |-> FALSE,
          value |-> [id |-> ruleId, pass |-> text.pass,
                     rationale |-> text.rationale,
                     suggested_fixes |-> text.suggested_fixes]]

\* The RuleResult of one rule task once callModel has returned or thrown
\* (runRuleWithLogs hands the builder's result through).
RuleTaskResult(ruleId, step) ==
    IF step.next = "return"
    THEN LET p == ParseAndStamp(ruleId, step.text) IN
         IF p.thrown THEN FailedCall(ruleId, p.error) ELSE p.value
    ELSE FailedCall(ruleId, step.error)

\* JavaScript truthiness of a JSON value, as `results.filter((r) => r.pass)` reads it.
Truthy(v) == v \notin {"false", "undefined", "null", "0", "\"\""}

\* Array.prototype.filter skips the empty slots of an array.
Filled(arr) == {x \in DOMAIN arr : arr[x] # Empty}

\* The FileResult lintOne returns from the pool's results.
LintOneResult(f, results) ==
    LET passed == Cardinality({j \in Filled(results) : Truthy(results[j].pass)})
        failed == Cardinality(DOMAIN results) - passed
    IN  [file |-> f, overall_pass |-> (failed = 0), rules |-> results]

\* ------------------------------------------------------------- main
\* Mutant: the synthetic FileResult with an empty rules list.
EngineErrorNoOutcome(f, message) ==
    [file |-> f, overall_pass |-> FALSE, rules |-> <<>>]

\* The catch block of a file task: the synthetic FileResult.
EngineError(f, message) ==
    [file |-> f,
     overall_pass |-> FALSE,
     rules |-> [x \in 0..0 |->
                  [id |-> "engine_error", pass |-> "false",
                   rationale |-> <<"Engine error: ", message>>,
                   suggested_fixes |-> <<>>]]]

\* Mutant: every file, passed or not, is counted as failed.
SummarizeFailedAll(out) ==
    [checked |-> Cardinality(DOMAIN out),
     passed |-> Cardinality({k \in Filled(out) : out[k].overall_pass}),
     failed |-> Cardinality(DOMAIN out),
     files |-> out]

\* The summary object built from the pool's results.
Summarize(out) ==
    [checked |-> Cardinality(DOMAIN out),
     passed |-> Cardinality({k \in Filled(out) : out[k].overall_pass}),
     failed |-> Cardinality({k \in Filled(out) : ~out[k].overall_pass}),
     files |-> out]

\* ------------------------------------------------------------- line locator
\* The JUnit report script (json_to_junit).  A string is the sequence of its
\* characters; offsets are 0-based as in JavaScript.
IsSpace(c) == c \in {" ", "\n", "\r", "\t"}

\* String.prototype.slice(from, to) for 0 <= from <= to <= length.
Slice(s, from, to) == SubSeq(s, from + 1, to)

\* String.prototype.indexOf: the first offset at which needle occurs, or -1.
IndexOf(s, needle) ==
    LET at == {i \in 0..(Len(s) - Len(needle)) : Slice(s, i, i + Len(needle)) = needle}
    IN  IF at = {} THEN -1 ELSE CHOOSE i \in at : \A o \in at : i <= o

\* String.prototype.includes.
Includes(s, needle) == IndexOf(s, needle) >= 0

\* String.prototype.toLowerCase, character by character.
LowerChar(c) ==
    IF c = "A" THEN "a" ELSE IF c = "B" THEN "b" ELSE IF c = "C" THEN "c" ELSE c
ToLowerCase(s) == [i \in 1..Len(s) |-> LowerChar(s[i])]

\* String.prototype.trim.
RECURSIVE TrimStart(_)
TrimStart(s) ==
    IF s # <<>> /\ IsSpace(Head(s)) THEN TrimStart(Tail(s)) ELSE s
RECURSIVE TrimEnd(_)
TrimEnd(s) ==
    IF s # <<>> /\ IsSpace(s[Len(s)]) THEN TrimEnd(SubSeq(s, 1, Len(s) - 1)) ELSE s
Trim(s) == TrimEnd(TrimStart(s))

\* s.replace(/\s+/g, ' '): every maximal run of white space becomes one blank.
RECURSIVE ReplaceRuns(_)
ReplaceRuns(s) ==
    IF s = <<>> THEN <<>>
    ELSE IF IsSpace(Head(s))
    THEN <<" ">> \o ReplaceRuns(TrimStart(s))
    ELSE <<Head(s)>> \o ReplaceRuns(Tail(s))

collapseWS(s) == Trim(ReplaceRuns(s))

\* s.split(/\r?\n/): the pieces between line breaks; a break is a "\n"
\* together with the "\r" right before it, if there is one.
RECURSIVE SplitLines(_)
\* Mutant: a "\r" alone ends a line as well.
SplitAtReturns(s) ==
    LET nl == IndexOf(s, <<"\n">>)
        cr == IndexOf(s, <<"\r">>)
        end == IF nl > 0 /\ s[nl] = "\r" THEN nl - 1 ELSE nl
    IN  IF cr >= 0 /\ (nl < 0 \/ cr < nl - 1)
        THEN <<Slice(s, 0, cr)>> \o SplitLines(Slice(s, cr + 1, Len(s)))
        ELSE IF nl < 0 THEN <<s>>
        ELSE <<Slice(s, 0, end)>> \o SplitLines(Slice(s, nl + 1, Len(s)))

SplitLines(s) ==
    LET nl == IndexOf(s, <<"\n">>)
        end == IF nl > 0 /\ s[nl] = "\r" THEN nl - 1 ELSE nl
    IN  IF nl < 0 THEN <<s>>
        ELSE <<Slice(s, 0, end)>> \o SplitLines(Slice(s, nl + 1, Len(s)))

\* The first (1-based) line that includes the needle, or 0.
FirstLineWith(lines, needle) ==
    LET hit == {i \in 1..Len(lines) : Includes(lines[i], needle)}
    IN  IF hit = {} THEN 0 ELSE CHOOSE i \in hit : \A o \in hit : i <= o

\* acc after the first i lines of the mapping loop of findLineSmart.
RECURSIVE Acc(_, _)
Acc(lines, i) ==
    IF i = 0 THEN 0
    ELSE Acc(lines, i - 1) + Len(collapseWS(ToLowerCase(lines[i]))) + 1

\* Mutant: acc has to pass idx.
MapBackBeyond(lines, idx) ==
    LET hit == {i \in 1..Len(lines) : Acc(lines, i) > idx}
    IN  IF hit = {} THEN 1 ELSE CHOOSE i \in hit : \A o \in hit : i <= o

\* The mapping loop: the first line at which acc has reached idx, or 1 when
\* the loop runs out.
MapBack(lines, idx) ==
    LET hit == {i \in 1..Len(lines) : Acc(lines, i) >= idx}
    IN  IF hit = {} THEN 1 ELSE CHOOSE i \in hit : \A o \in hit : i <= o

findLineSmart(source, needle) ==
    IF source = <<>> \/ needle = <<>> THEN 1
    ELSE
    LET idx == IndexOf(source, needle)
        lines == SplitLines(source)
        sensitive == FirstLineWith(lines, needle)
        insensitive ==
            FirstLineWith([i \in 1..Len(lines) |-> ToLowerCase(lines[i])],
                          ToLowerCase(needle))
        collapsed == IndexOf(collapseWS(ToLowerCase(source)),
                             collapseWS(ToLowerCase(needle)))
    IN  IF idx >= 0 THEN Len(SplitLines(Slice(source, 0, idx)))
        ELSE IF sensitive > 0 THEN sensitive
        ELSE IF insensitive > 0 THEN insensitive
        ELSE IF collapsed >= 0 THEN MapBack(lines, collapsed)
        ELSE 1

\* The fixes of a rule result and their fields are JavaScript values.
Fix(line, before, quote, original) ==
    [t |-> "object", line |-> line, before |-> before, quote |-> quote,
     original |-> original]
Array(items) == [t |-> "array", items |-> items]

\* Mutant: only an integer counts as an explicit line.
HasIntegerLine(fx) ==
    /\ fx.t = "object"
    /\ fx.line.t = "number"
    /\ fx.line.halves > 0
    /\ fx.line.halves % 2 = 0

\* fx && typeof fx === 'object' && Number.isFinite(fx.line) && fx.line > 0
HasLine(fx) ==
    /\ fx.t = "object"
    /\ fx.line.t = "number"
    /\ fx.line.halves > 0

\* fx && typeof fx === 'object' && typeof fx[key] === 'string' && fx[key].trim()
HasText(fx, key) ==
    /\ fx.t = "object"
    /\ fx[key].t = "string"
    /\ Trim(fx[key].s) # <<>>

Keys == <<"before", "quote", "original">>

\* The two nested loops over the keys and the fixes, from fix i of key k on.
RECURSIVE ScanQuotes(_, _, _, _)
ScanQuotes(source, fixes, k, i) ==
    IF k > Len(Keys) THEN 1
    ELSE IF i > Len(fixes) THEN ScanQuotes(source, fixes, k + 1, 1)
    ELSE IF HasText(fixes[i], Keys[k]) /\ findLineSmart(source, fixes[i][Keys[k]].s) > 1
    THEN findLineSmart(source, fixes[i][Keys[k]].s)
    ELSE ScanQuotes(source, fixes, k, i + 1)

\* Mutant: when nothing locates the line, the last line of the source.
deriveLineBottom(source, fixList) ==
    IF fixList.t # "array" THEN Len(SplitLines(source))
    ELSE IF Len(fixList.items) = 0 THEN Len(SplitLines(source))
    ELSE
    LET fixes == fixList.items
        explicit == {i \in 1..Len(fixes) : HasLine(fixes[i])}
        quoted == ScanQuotes(source, fixes, 1, 1)
    IN  IF explicit # {}
        THEN Floor(fixes[CHOOSE i \in explicit : \A o \in explicit : i <= o].line)
        ELSE IF quoted > 1 THEN quoted ELSE Len(SplitLines(source))

deriveLine(source, fixList) ==
    IF fixList.t # "array" THEN 1
    ELSE IF Len(fixList.items) = 0 THEN 1
    ELSE
    LET fixes == fixList.items
        explicit == {i \in 1..Len(fixes) : HasLine(fixes[i])}
    IN  IF explicit # {}
        THEN Floor(fixes[CHOOSE i \in explicit : \A o \in explicit : i <= o].line)
        ELSE ScanQuotes(source, fixes, 1, 1)

\* Every text of at most n characters of the alphabet.
Alphabet == {"a", "A", " ", "\n"}
RECURSIVE Texts(_)
Texts(n) ==
    IF n = 0 THEN {<<>>}
    ELSE Texts(n - 1) \cup
         {Append(t, c) : t \in {u \in Texts(n - 1) : Len(u) = n - 1}, c \in Alphabet}

\* Searches beyond the alphabet and the lengths: carriage returns, a
\* quotation that differs from the source in case or in white space only.
LongSearches ==
    {<<<<"a", "\n", "c", " ", "b", " ", " ", "c">>, <<"b", " ", "c">>>>,
     <<<<"a", "\n", "c", " ", "b", " ", " ", "c">>, <<"B", " ", "C">>>>,
     <<<<"a", "a", "\n", "\n", "b", "\n", " ", "c", "b">>, <<"b", " ", "c">>>>,
     <<<<"a", "\r", "\n", "b", "\r", "\n", "c">>, <<"c">>>>,
     <<<<"a", "\r", "\n", "b", "\r", "\n", "c">>, <<"B">>>>,
     <<<<"a", "\r", "b", "\n", "c">>, <<"c">>>>,
     <<<<"a", "\r", "b", "\n", "c">>, <<"b">>>>,
     <<<<"a", "\r", "\n", "b">>, <<"\n", "b">>>>,
     <<<<"a", "\n", "b", "\n", "c">>, <<"b", "\n", "c">>>>,
     <<<<"a", "\n", "b", "\n", "c">>, <<"d">>>>}

Searches == (Texts(MaxSrcLen) \X Texts(MaxNeedleLen)) \cup LongSearches

\* The source texts and the fixes of the reports that are converted.
Sources ==
    {<<>>,
     <<"a">>,
     <<"a", "\n", "b", "\n", "c">>,
     <<"b", "\n", "A">>,
     <<"a", "\n", "c", " ", "b", " ", " ", "c">>,
     <<"a", "\r", "\n", "b">>,
     <<"c", "\n", "\n", "a", "b">>}

Fixes ==
    {Fix(Num(14), Undefined, Undefined, Undefined),
     Fix(Num(5), Undefined, Undefined, Undefined),
     Fix(Num(1), Undefined, Undefined, Undefined),
     Fix(Num(0), Undefined, Undefined, Undefined),
     Fix(Num(-2), Undefined, Undefined, Undefined),
     Fix(NaN, Undefined, Undefined, Undefined),
     Fix(Str(<<"3">>), Undefined, Undefined, Undefined),
     Fix(Num(4), Str(<<"c">>), Undefined, Undefined),
     Fix(Undefined, Str(<<"a">>), Str(<<"b">>), Undefined),
     Fix(Undefined, Str(<<"d">>), Str(<<"c">>), Undefined),
     Fix(Undefined, Undefined, Str(<<"b", " ", "c">>), Undefined),
     Fix(Undefined, Undefined, Undefined, Str(<<"c">>)),
     Fix(Undefined, Str(<<" ">>), Undefined, Str(<<"a">>)),
     Null,
     Str(<<"a">>)}

RECURSIVE ListsOf(_, _)
ListsOf(S, n) ==
    IF n = 0 THEN {<<>>}
    ELSE ListsOf(S, n - 1) \cup
         {Append(l, x) : l \in {m \in ListsOf(S, n - 1) : Len(m) = n - 1}, x \in S}

FixLists == {Undefined} \cup {Array(l) : l \in ListsOf(Fixes, MaxFixes)}

\* ------------------------------------------------------------- state machine
\* callModel has not been entered / is entered: `let attempt = 0`, first call in flight.
\* slept lists the delays of the backoff timers the call has set.
IdleCall == [pc |-> "idle", attempt |-> 0, calls |-> 0, last |-> NoReply, slept |-> <<>>]
FirstCall == [pc |-> "call", attempt |-> 0, calls |-> 1, last |-> NoReply, slept |-> <<>>]

\* `Math.max(1, Number(cli.fileConcurrency ?? DEFAULT_FILE_CONCURRENCY))`:
\* parseCLI leaves undefined or a number; Math.max is NaN when the number is.
EffectiveLimit(configured, fallback) ==
    LET n == IF configured = Undefined THEN Whole(fallback) ELSE configured
    IN  IF n = NaN THEN NaN
        ELSE IF n.halves < 2 THEN Whole(1)
        ELSE n

\* The two limits as main computes them from what was configured.
Configured(settings) ==
    /\ cli \in [fileConcurrency : settings, ruleConcurrency : settings]
    /\ FILE_CONCURRENCY = EffectiveLimit(cli.fileConcurrency, DEFAULT_FILE_CONCURRENCY)
    /\ RULE_CONCURRENCY = EffectiveLimit(cli.ruleConcurrency, DEFAULT_RULE_CONCURRENCY)

\* The limits of a run that is configured with positive integers.
Limits == {Whole(c) : c \in 1..MaxConcurrency}

Corpus ==
    \E d \in 1..MaxTasks : \E r \in 1..MaxTasks :
       /\ d * r <= MaxTasks
       /\ targets = [k \in 0..(d - 1) |-> FileNames[k + 1]]
       /\ rules = [j \in 0..(r - 1) |-> [id |-> RuleNames[j + 1]]]

Inputs ==
    /\ Corpus
    /\ Configured(Limits)

NotStarted ==
    /\ filePool = NoPool
    /\ rulePool = [k \in DOMAIN targets |-> NoPool]
    /\ file = [k \in DOMAIN targets |-> "idle"]
    /\ call = [k \in DOMAIN targets |-> [j \in DOMAIN rules |-> IdleCall]]
    /\ summary = NoSummary

\* No report is being converted.
NoReport ==
    /\ src = <<>>
    /\ fixesArr = Undefined
    /\ returned = <<>>
    /\ quotation = <<>>
    /\ ln = <<>>

Init ==
    /\ Inputs
    /\ NoReport
    /\ replies = SchedulerReplies
    /\ outages = MaxOutages
    /\ jitters = {0}
    /\ NotStarted

\* A run against a transport that may fail every call: nothing but
\* callModel's own attempts ends the retries of a task.
InitFair ==
    /\ Inputs
    /\ NumTargets * NumRules <= MaxFairTasks
    /\ NoReport
    /\ replies = SchedulerReplies
    /\ outages = Endless
    /\ jitters = {0}
    /\ NotStarted

\* A run over one file and one rule, against every answer of the transport.
InitCall ==
    /\ targets = [k \in 0..0 |-> FileNames[1]]
    /\ rules = [j \in 0..0 |-> [id |-> RuleNames[1]]]
    /\ Configured(Limits)
    /\ replies = AllReplies
    /\ jitters = Jitters
    /\ outages = MAX_RETRIES
    /\ NotStarted
    /\ NoReport

\* fileTasks[k] resolves with the FileResult fr (a worker of the file pool
\* awaits it): the worker stores it and draws the next file, whose lintOne
\* runs up to `await fs.readFile`; when the last worker has stopped, runPool
\* returns and main builds the summary.
FinishFile(k, fr) ==
    LET fp == PoolResolve(filePool, k, fr)
        nk == filePool.i
        closed == [file EXCEPT ![k] = "done"]
    IN  /\ filePool' = fp
        /\ file' = IF nk < fp.n THEN [closed EXCEPT ![nk] = "reading"] ELSE closed
        /\ summary' = IF PoolDone(fp) THEN Summarize(fp.results) ELSE summary

\* main: `await runPool(fileTasks, FILE_CONCURRENCY)` starts the file workers.
Main ==
    /\ filePool = NoPool
    /\ LET fp == PoolStart(NumTargets, FILE_CONCURRENCY) IN
         /\ filePool' = fp
         /\ file' = [k \in DOMAIN targets |->
                       IF fp.invoked[k] > 0 THEN "reading" ELSE "idle"]
         /\ summary' = IF PoolDone(fp) THEN Summarize(fp.results) ELSE summary
    /\ UNCHANGED <<quotation, ln, cli, jitters, src, fixesArr, returned, targets, rules,
                   FILE_CONCURRENCY, RULE_CONCURRENCY, replies, outages,
                   rulePool, call>>

\* lintOne(targets[k]): readFile and matter succeed; the rule tasks are built
\* and `runPool(tasks, RULE_CONCURRENCY)` starts the rule workers, each of
\* which enters callModel.
ReadOk(k) ==
    /\ filePool # NoPool
    /\ file[k] = "reading"
    /\ LET rp == PoolStart(NumRules, RULE_CONCURRENCY) IN
         /\ rulePool' = [rulePool EXCEPT ![k] = rp]
         /\ call' = [call EXCEPT ![k] =
                       [j \in DOMAIN rules |->
                          IF rp.invoked[j] > 0 THEN FirstCall ELSE IdleCall]]
         /\ IF PoolDone(rp)
            THEN FinishFile(k, LintOneResult(targets[k], rp.results))
            ELSE /\ file' = [file EXCEPT ![k] = "linting"]
                 /\ UNCHANGED <<filePool, summary>>
    /\ UNCHANGED <<quotation, ln, cli, jitters, src, fixesArr, returned, targets, rules,
                   FILE_CONCURRENCY, RULE_CONCURRENCY, replies, outages>>

\* lintOne(targets[k]) throws before any rule task exists (the file cannot be
\* read, or its front matter cannot be parsed): the file task catches it.
ReadFail(k) ==
    /\ filePool # NoPool
    /\ file[k] = "reading"
    /\ FinishFile(k, EngineError(targets[k], "ENOENT: no such file"))
    /\ UNCHANGED <<quotation, ln, cli, jitters, src, fixesArr, returned, targets, rules,
                   FILE_CONCURRENCY, RULE_CONCURRENCY, replies, outages,
                   rulePool, call>>

\* The call in flight for rule j of file k is answered.  On a retry callModel
\* goes to sleep.  Otherwise the rule task resolves: its worker stores the
\* RuleResult and draws the next rule; when the last rule worker has stopped,
\* lintOne returns the FileResult to the file pool.
OracleReply(k, j, reply) ==
    /\ file[k] = "linting"
    /\ call[k][j].pc = "call"
    /\ Outage(reply) => (outages = Endless \/ outages > 0)
    /\ LET rp == rulePool[k]
           step == CallModelStep(call[k][j].attempt, reply)
           ended == [call[k][j] EXCEPT !.attempt = step.attempt, !.last = reply]
       IN  IF step.next = "backoff"
           THEN /\ \E jitter \in jitters :
                     call' = [call EXCEPT ![k][j] =
                                [ended EXCEPT !.pc = "sleep",
                                              !.slept = Append(@, Backoff(step.attempt, jitter))]]
                /\ UNCHANGED <<rulePool, filePool, file, summary>>
           ELSE LET np == PoolResolve(rp, j, RuleTaskResult(rules[j].id, step))
                    nj == rp.i
                    done == [call[k] EXCEPT ![j] = [ended EXCEPT !.pc = "done"]]
                IN  /\ call' = [call EXCEPT ![k] =
                                  IF nj < np.n
                                  THEN [done EXCEPT ![nj] = FirstCall]
                                  ELSE done]
                    /\ rulePool' = [rulePool EXCEPT ![k] = np]
                    /\ IF PoolDone(np)
                       THEN FinishFile(k, LintOneResult(targets[k], np.results))
                       ELSE UNCHANGED <<filePool, file, summary>>
    /\ outages' = IF Outage(reply) /\ outages # Endless THEN outages - 1 ELSE outages
    /\ UNCHANGED <<quotation, ln, cli, jitters, src, fixesArr, returned, targets, rules,
                   FILE_CONCURRENCY, RULE_CONCURRENCY, replies>>

\* The backoff timer of rule j on file k fires: the loop issues another call.
BackoffElapsed(k, j) ==
    /\ call[k][j].pc = "sleep"
    /\ call' = [call EXCEPT ![k][j] = [@ EXCEPT !.pc = "call", !.calls = @ + 1]]
    /\ UNCHANGED <<quotation, ln, cli, jitters, src, fixesArr, returned, targets, rules,
                   FILE_CONCURRENCY, RULE_CONCURRENCY, replies, outages,
                   filePool, rulePool, file, summary>>

Next ==
    \/ Main
    \/ \E k \in DOMAIN targets : ReadOk(k)
    \/ \E k \in DOMAIN targets : ReadFail(k)
    \/ \E k \in DOMAIN targets : \E j \in DOMAIN rules :
         \E reply \in replies : OracleReply(k, j, reply)
    \/ \E k \in DOMAIN targets : \E j \in DOMAIN rules : BackoffElapsed(k, j)

Spec == Init /\ [][Next]_vars
SpecCall == InitCall /\ [][Next]_vars
\* Every pending completion (a file read, an oracle answer, a backoff timer)
\* is delivered by the event loop sooner or later.
SpecFair == InitFair /\ [][Next]_vars /\ WF_vars(Next)

\* The linter is not run.
NoRun ==
    /\ targets = [k \in 0..0 |-> FileNames[1]]
    /\ rules = [j \in 0..0 |-> [id |-> RuleNames[1]]]
    /\ Configured({Whole(1)})
    /\ replies = {}
    /\ outages = 0
    /\ jitters = {0}
    /\ NotStarted

\* What may be configured as a limit: nothing, a number that is none, a
\* negative number, zero, an integer, a fraction.
Settings == {Undefined, NaN, Whole(-1), Whole(0), Whole(2), Num(5)}

\* A run under any configuration of the two limits.
InitConfig ==
    /\ Corpus
    /\ Configured(Settings)
    /\ NoReport
    /\ replies = {Pass, Err429}
    /\ outages = MaxOutages
    /\ jitters = {0}
    /\ NotStarted

SpecConfig == InitConfig /\ [][Next]_vars

\* The report script, after a run: one rule result of the report, with the
\* text of its file and its suggested fixes.
InitLine ==
    /\ NoRun
    /\ quotation = <<>>
    /\ ln = <<>>
    /\ src \in Sources
    /\ fixesArr \in FixLists
    /\ returned = <<>>

\* const line = deriveLine(src, fixesArr)
Locate ==
    /\ Len(returned) < MaxCalls
    /\ returned' = Append(returned, deriveLine(src, fixesArr))
    /\ UNCHANGED <<quotation, ln, cli, jitters, fixesArr,
                   src, targets, rules, FILE_CONCURRENCY, RULE_CONCURRENCY,
                   replies, outages, filePool, rulePool, file, call, summary>>

NextLine == Locate

SpecLine == InitLine /\ [][NextLine]_vars

\* The report script looks for one quotation in one source text.
InitFind ==
    /\ NoRun
    /\ \E search \in Searches :
          /\ src = search[1]
          /\ quotation = search[2]
    /\ ln = <<>>
    /\ fixesArr = Undefined
    /\ returned = <<>>

\* const ln = findLineSmart(src, fx[key])
Find ==
    /\ ln = <<>>
    /\ ln' = <<findLineSmart(src, quotation)>>
    /\ UNCHANGED <<quotation, cli, jitters, src, fixesArr, returned, targets, rules,
                   FILE_CONCURRENCY, RULE_CONCURRENCY, replies, outages,
                   filePool, rulePool, file, call, summary>>

NextFind == Find

SpecFind == InitFind /\ [][NextFind]_vars

\* ------------------------------------------------------------- properties
Pools == (IF filePool = NoPool THEN {} ELSE {filePool})
         \cup {rulePool[k] : k \in {x \in DOMAIN targets : rulePool[x] # NoPool}}

\* The files whose task has been invoked and has not resolved.
FilesInFlight == {k \in DOMAIN targets : file[k] \in {"reading", "linting"}}
\* The rules of file k whose task has been invoked and has not resolved.
RulesInFlight(k) == {j \in DOMAIN rules : call[k][j].pc \in {"call", "sleep"}}
\* The rule tasks that have been invoked.
Attempted ==
    {t \in (DOMAIN targets) \X (DOMAIN rules) : call[t[1]][t[2]].pc # "idle"}
\* lintOne(targets[k]) threw before its rule tasks existed.
EngineFailed(k) == file[k] = "done" /\ rulePool[k] = NoPool

\* C1: in every pool, under every interleaving, no index is drawn from the
\* cursor twice and no task is invoked twice; the indices drawn are exactly
\* those below the cursor, so none is skipped; and when the last worker has
\* stopped every index was drawn once, its task invoked once and its slot
\* filled.  This holds for limits below, equal to and above the number of tasks.
C1_EachIndexOnce ==
    /\ \A pool \in Pools : \A x \in 0..(pool.n - 1) :
         /\ pool.claims[x] <= 1
         /\ pool.invoked[x] = pool.claims[x]
         /\ pool.held[x] <= pool.claims[x]
         /\ (pool.claims[x] = 1) = (x < pool.i)
         /\ PoolDone(pool) => pool.claims[x] = 1 /\ pool.results[x] # Empty
    /\ filePool # NoPool =>
         \A k \in DOMAIN targets : (file[k] # "idle") = (filePool.invoked[k] = 1)
    /\ \A k \in DOMAIN targets : rulePool[k] # NoPool =>
         \A j \in DOMAIN rules : (call[k][j].pc # "idle") = (rulePool[k].invoked[j] = 1)

\* C1 witness: a run has ended in which the file pool had fewer workers than
\* files and the rule pools had a limit above the number of rules.
C1_Witness ==
    /\ summary # NoSummary
    /\ 1 < Floor(FILE_CONCURRENCY) /\ Floor(FILE_CONCURRENCY) < NumTargets
    /\ Floor(RULE_CONCURRENCY) > NumRules
    /\ \E k \in DOMAIN targets : rulePool[k] # NoPool

\* C2: slot k of the file pool's results, once filled, holds the FileResult of
\* targets[k] (the result of its own rule pool, or its own engine error), and
\* the summary's files list has one filled slot per target in input order.
C2_FilesInInputOrder ==
    /\ filePool # NoPool =>
         \A k \in DOMAIN targets : filePool.results[k] # Empty =>
            /\ file[k] = "done"
            /\ filePool.results[k].file = targets[k]
            /\ IF rulePool[k] = NoPool
               THEN filePool.results[k].rules[0].id = "engine_error"
               ELSE filePool.results[k].rules = rulePool[k].results
    /\ summary # NoSummary =>
         /\ DOMAIN summary.files = DOMAIN targets
         /\ \A k \in DOMAIN targets :
              /\ summary.files[k] # Empty
              /\ summary.files[k].file = targets[k]

\* C2 witness: the second file has finished before the first one, so slot 1
\* is filled while slot 0 is empty.
C2_Witness ==
    /\ filePool # NoPool
    /\ NumTargets >= 2
    /\ filePool.results[0] = Empty
    /\ filePool.results[1] # Empty

\* C3: within one file, slot j of the rule pool's results, once filled, holds
\* the outcome of rules[j]: it carries that rule's id and the verdict of that
\* rule's own last answer from the oracle.
C3_RulesInInputOrder ==
    \A k \in DOMAIN targets : rulePool[k] # NoPool =>
       \A j \in DOMAIN rules : rulePool[k].results[j] # Empty =>
          /\ call[k][j].pc = "done"
          /\ rulePool[k].results[j].id = rules[j].id
          /\ (rulePool[k].results[j].pass = "true") = (call[k][j].last = Pass)

\* C3 witness: in some file a later rule has its outcome stored while an
\* earlier rule is still running.
C3_Witness ==
    \E k \in DOMAIN targets :
       /\ rulePool[k] # NoPool
       /\ NumRules >= 2
       /\ rulePool[k].results[0] = Empty
       /\ rulePool[k].results[1] # Empty
       /\ rulePool[k].results[1].pass = "false"

\* C4: at most FILE_CONCURRENCY files are in flight.
C4_FilesBounded == Cardinality(FilesInFlight) <= Floor(FILE_CONCURRENCY)

\* C4 witness: the limit is reached with files still waiting.
C4_Witness ==
    /\ Floor(FILE_CONCURRENCY) >= 2
    /\ Cardinality(FilesInFlight) = Floor(FILE_CONCURRENCY)
    /\ \E k \in DOMAIN targets : file[k] = "idle"
    /\ \E k \in DOMAIN targets : file[k] = "done"

\* C5: for each file, at most RULE_CONCURRENCY of its rule tasks are in flight.
C5_RulesBounded ==
    \A k \in DOMAIN targets : Cardinality(RulesInFlight(k)) <= Floor(RULE_CONCURRENCY)

\* C5 witness: in some file the limit is reached, one of the running rule
\* tasks sleeping in its backoff, with rules still waiting.
C5_Witness ==
    \E k \in DOMAIN targets :
       /\ Floor(RULE_CONCURRENCY) >= 2
       /\ Cardinality(RulesInFlight(k)) = Floor(RULE_CONCURRENCY)
       /\ \E j \in DOMAIN rules : call[k][j].pc = "sleep"
       /\ \E j \in DOMAIN rules : call[k][j].pc = "idle"

\* C6 as claimed: when the run has ended, D * R rule tasks were attempted and
\* every file's outcomes list holds one outcome per rule, whatever happened to
\* the file.
C6_AllPairsWhateverTheOutcome ==
    summary # NoSummary =>
       /\ Cardinality(Attempted) = NumTargets * NumRules
       /\ \A k \in DOMAIN targets :
            /\ DOMAIN summary.files[k].rules = DOMAIN rules
            /\ \A j \in DOMAIN rules : summary.files[k].rules[j].id = rules[j].id

\* C6 amended: when the run has ended, R rule tasks were attempted for every
\* file whose lintOne did not throw and none for the others; a file whose
\* lintOne did not throw has one outcome per rule, in rule order, each rule
\* invoked once; a file whose lintOne threw has the single engine_error outcome.
C6_AllPairsOfLintedFiles ==
    summary # NoSummary =>
       /\ Cardinality(Attempted) =
             NumRules * Cardinality({k \in DOMAIN targets : ~EngineFailed(k)})
       /\ \A k \in DOMAIN targets :
            IF EngineFailed(k)
            THEN /\ DOMAIN summary.files[k].rules = {0}
                 /\ summary.files[k].rules[0].id = "engine_error"
                 /\ \A j \in DOMAIN rules : call[k][j].pc = "idle"
            ELSE /\ DOMAIN summary.files[k].rules = DOMAIN rules
                 /\ \A j \in DOMAIN rules :
                      /\ summary.files[k].rules[j] # Empty
                      /\ summary.files[k].rules[j].id = rules[j].id
                      /\ call[k][j].pc = "done"
                      /\ rulePool[k].invoked[j] = 1

\* C6 witness: a run over several rules has ended with one file linted and
\* another one failed by the engine.
C6_Witness ==
    /\ summary # NoSummary
    /\ NumRules >= 2
    /\ \E k \in DOMAIN targets : EngineFailed(k)
    /\ \E k \in DOMAIN targets : ~EngineFailed(k)

\* The oracle's errors as the claims class them, by status and type alone.
FatalReply(r) ==
    /\ r.kind = "err"
    /\ (r.errorType = "insufficient_quota" \/ r.type = "insufficient_quota"
        \/ r.status = 402)
TransientStatus(r) == r.kind = "err" /\ (r.status = 429 \/ r.status >= 500)
\* The outcome stored for rule j of file k.
Outcome(k, j) == rulePool[k].results[j]
GenericHint == <<"Verify API key/org; try again.">>

\* C7: no rule task ever issues more than 3 oracle calls, and when the third
\* call of a task is answered by a 429 or 5xx error the task is over, with a
\* failing outcome, instead of sleeping for a fourth call.
C7_AtMostThreeCalls ==
    \A k \in DOMAIN targets : \A j \in DOMAIN rules :
       /\ call[k][j].calls <= 3
       /\ (call[k][j].calls = 3 /\ call[k][j].pc # "call"
           /\ TransientStatus(call[k][j].last)) =>
             /\ call[k][j].pc = "done"
             /\ Outcome(k, j).pass = "false"
             /\ Outcome(k, j).suggested_fixes = GenericHint

\* C7 witness: a task is over after three calls, the third answered by a 5xx
\* error that is not a quota error.
C7_Witness ==
    \E k \in DOMAIN targets : \E j \in DOMAIN rules :
       /\ call[k][j].pc = "done"
       /\ call[k][j].calls = 3
       /\ call[k][j].last = Err503

\* C8 as claimed: a task whose call was answered by a fatal error (type
\* insufficient_quota or status 402) is over and has made exactly one call.
C8_FatalMeansOneCall ==
    \A k \in DOMAIN targets : \A j \in DOMAIN rules :
       FatalReply(call[k][j].last) =>
          /\ call[k][j].pc = "done"
          /\ call[k][j].calls = 1

\* C8 amended: a call answered by a fatal error is never retried: the task is
\* over at once with a failing outcome, so no call follows the fatal one and
\* the calls made are the failed attempts counted (at most 3): one when the
\* fatal error answers the first call, one more for each transient failure
\* that came before it.
C8_FatalNeverRetried ==
    \A k \in DOMAIN targets : \A j \in DOMAIN rules :
       FatalReply(call[k][j].last) =>
          /\ call[k][j].pc = "done"
          /\ call[k][j].calls = call[k][j].attempt
          /\ call[k][j].calls \in 1..3
          /\ Outcome(k, j).pass = "false"

\* C8 witness: a task is over on a quota error that answered its second call.
C8_Witness ==
    \E k \in DOMAIN targets : \E j \in DOMAIN rules :
       /\ call[k][j].pc = "done"
       /\ call[k][j].calls = 2
       /\ call[k][j].last = ErrQuota

\* C9: a task whose last answer is a successful response holding a JSON
\* object has as its outcome that object with the id replaced by the rule's
\* id, whether the response answered the first, the second or the third call.
C9_RetriesTransparent ==
    \A k \in DOMAIN targets : \A j \in DOMAIN rules :
       (call[k][j].last.kind = "ok" /\ call[k][j].last.text.json = "object") =>
          /\ call[k][j].pc = "done"
          /\ call[k][j].attempt \in 0..2
          /\ call[k][j].calls = call[k][j].attempt + 1
          /\ Outcome(k, j) =
                [id |-> rules[j].id,
                 pass |-> call[k][j].last.text.pass,
                 rationale |-> call[k][j].last.text.rationale,
                 suggested_fixes |-> call[k][j].last.text.suggested_fixes]

\* C9 witness: a task succeeded on its third call, after two transient failures.
C9_Witness ==
    \E k \in DOMAIN targets : \E j \in DOMAIN rules :
       /\ call[k][j].pc = "done"
       /\ call[k][j].attempt = 2
       /\ call[k][j].last = Fail
       /\ Outcome(k, j).id = rules[j].id

\* C10: an error whose status is neither 429 nor 5xx (or that has no status)
\* ends the task at once, no call following it; a successful response whose
\* text is no JSON ends the task at once with a failing outcome whose
\* rationale carries the parse error's message.
C10_NonTransientNeverRetried ==
    \A k \in DOMAIN targets : \A j \in DOMAIN rules :
       /\ (call[k][j].last.kind = "err" /\ ~TransientStatus(call[k][j].last)) =>
             /\ call[k][j].pc = "done"
             /\ call[k][j].calls = call[k][j].attempt
             /\ Outcome(k, j).pass = "false"
       /\ (call[k][j].last.kind = "ok" /\ call[k][j].last.text.json = "invalid") =>
             /\ call[k][j].pc = "done"
             /\ call[k][j].calls = call[k][j].attempt + 1
             /\ Outcome(k, j) =
                   [id |-> rules[j].id,
                    pass |-> "false",
                    rationale |-> <<"LLM call failed: ", "Unexpected token in JSON">>,
                    suggested_fixes |-> GenericHint]

\* C10 witness: after one transient failure the second call returned text
\* that is no JSON, and the task is over.
C10_Witness ==
    \E k \in DOMAIN targets : \E j \in DOMAIN rules :
       /\ call[k][j].pc = "done"
       /\ call[k][j].calls = 2
       /\ call[k][j].last = BadJson

\* The task's last answer made the call fail: an error of the transport, or
\* a successful response whose text does not parse to an object.
FailedAnswer(r) ==
    \/ r.kind = "err"
    \/ r.kind = "ok" /\ r.text.json \in {"invalid", "null"}

\* C11: whatever made the oracle call of a rule task fail (retries exhausted,
\* a fatal error, a non-transient error, an unparseable response), the task
\* resolves into its slot of the pool with the synthetic failing result: the
\* rule's id, pass false, a rationale that opens with the failure text, and
\* the single generic hint as suggested_fixes.
C11_FailureIsData ==
    \A k \in DOMAIN targets : \A j \in DOMAIN rules :
       (call[k][j].pc = "done" /\ FailedAnswer(call[k][j].last)) =>
          /\ Outcome(k, j) # Empty
          /\ Outcome(k, j).id = rules[j].id
          /\ Outcome(k, j).pass = "false"
          /\ Outcome(k, j).rationale[1] \in
                {"LLM call failed: ", "LLM call failed: insufficient quota."}
          /\ Outcome(k, j).suggested_fixes = GenericHint
          /\ rulePool[k].held[j] = 0

\* C11 witness: a task is over after its retries were exhausted by a server
\* error, and its failing result is in its slot.
C11_Witness ==
    \E k \in DOMAIN targets : \E j \in DOMAIN rules :
       /\ call[k][j].pc = "done"
       /\ call[k][j].attempt = 3
       /\ call[k][j].last = Err500
       /\ Outcome(k, j).pass = "false"

\* C12: a task that ended on a fatal error has the fixed quota rationale; a
\* task that ended on another error has the generic text followed by that
\* error's message; a task that ended on an unparseable response has the
\* generic text followed by the parse error's message.
C12_RationaleByClass ==
    \A k \in DOMAIN targets : \A j \in DOMAIN rules :
       (call[k][j].pc = "done" /\ FailedAnswer(call[k][j].last)) =>
          Outcome(k, j).rationale =
             IF FatalReply(call[k][j].last)
             THEN <<"LLM call failed: insufficient quota.">>
             ELSE IF call[k][j].last.kind = "err"
             THEN <<"LLM call failed: ", call[k][j].last.message>>
             ELSE IF call[k][j].last.text.json = "invalid"
             THEN <<"LLM call failed: ", "Unexpected token in JSON">>
             ELSE <<"LLM call failed: ", "Cannot set properties of null">>

\* C12 witness: a task ended on a quota error that came with a retryable status.
C12_Witness ==
    \E k \in DOMAIN targets : \E j \in DOMAIN rules :
       /\ call[k][j].pc = "done"
       /\ call[k][j].last = ErrQuota
       /\ Outcome(k, j).rationale = <<"LLM call failed: insufficient quota.">>

\* C13: the outcome of every finished rule task carries the id of its rule,
\* whether the oracle wrote another id, no id, or the call failed.
C13_IdForced ==
    \A k \in DOMAIN targets : \A j \in DOMAIN rules :
       call[k][j].pc = "done" => Outcome(k, j).id = rules[j].id

\* C13 witness: a task is over on a response that carried no id.
C13_Witness ==
    \E k \in DOMAIN targets : \E j \in DOMAIN rules :
       /\ call[k][j].pc = "done"
       /\ call[k][j].last = PassNoId
       /\ Outcome(k, j).id = rules[j].id

\* The FileResults the file pool holds.
Documents == {k \in DOMAIN targets : filePool # NoPool /\ filePool.results[k] # Empty}
DocumentResult(k) == filePool.results[k]

\* C14: for every FileResult, overall_pass is true exactly when every outcome
\* of its rules list has pass equal to the boolean true.
C14_OverallPassIffAllPass ==
    \A k \in Documents :
       DocumentResult(k).overall_pass <=>
          \A j \in DOMAIN DocumentResult(k).rules :
             DocumentResult(k).rules[j].pass = "true"

\* C15: the summary of a run has checked = the number of input files,
\* passed = the number of FileResults with overall_pass true, and
\* failed = checked - passed.
C15_SummaryCounts ==
    summary # NoSummary =>
       /\ summary.checked = NumTargets
       /\ Documents = DOMAIN targets
       /\ summary.passed =
             Cardinality({k \in Documents : DocumentResult(k).overall_pass})
       /\ summary.failed = summary.checked - summary.passed
       /\ summary.passed + summary.failed = summary.checked

\* C15 witness: a summary that counts a passed file and a failed one.
C15_Witness ==
    /\ summary # NoSummary
    /\ summary.passed >= 1
    /\ summary.failed >= 1

\* The outcome an engine error leaves.
IsEngineOutcome(o) ==
    /\ o.id = "engine_error"
    /\ o.pass = "false"
    /\ o.rationale[1] = "Engine error: "

\* C16: a file whose lintOne threw outside the rule tasks has, in its own
\* slot, a FileResult with overall_pass false and exactly one outcome, the
\* engine error; the run goes on to its summary over all files; and every
\* other finished file holds the FileResult of its own rule outcomes, which
\* are the outcomes of its own calls.
C16_EngineErrorIsolated ==
    /\ \A k \in DOMAIN targets : EngineFailed(k) =>
          /\ k \in Documents
          /\ DocumentResult(k).file = targets[k]
          /\ DocumentResult(k).overall_pass = FALSE
          /\ DOMAIN DocumentResult(k).rules = {0}
          /\ IsEngineOutcome(DocumentResult(k).rules[0])
    /\ \A k \in DOMAIN targets : (file[k] = "done" /\ ~EngineFailed(k)) =>
          /\ k \in Documents
          /\ DocumentResult(k) = LintOneResult(targets[k], rulePool[k].results)
          /\ \A j \in DOMAIN rules :
                DocumentResult(k).rules[j] =
                   RuleTaskResult(rules[j].id,
                                  CallModelStep(call[k][j].calls - 1, call[k][j].last))
    /\ summary # NoSummary => Documents = DOMAIN targets
    /\ (filePool # NoPool /\ PoolDone(filePool)) => summary # NoSummary

\* C16 witness: the run reached its summary although the first file could
\* not be read, and a later file was linted and passed.
C16_Witness ==
    /\ summary # NoSummary
    /\ NumTargets >= 2
    /\ EngineFailed(0)
    /\ \E k \in DOMAIN targets :
          /\ k > 0
          /\ ~EngineFailed(k)
          /\ DocumentResult(k).overall_pass

\* Every task that was created has its outcome, every worker of every pool
\* has stopped, and main has its summary.
Finished ==
    /\ summary # NoSummary
    /\ filePool # NoPool
    /\ PoolDone(filePool)
    /\ \A k \in DOMAIN targets :
          /\ file[k] = "done"
          /\ filePool.results[k] # Empty
          /\ rulePool[k] # NoPool =>
                /\ PoolDone(rulePool[k])
                /\ \A j \in DOMAIN rules :
                      call[k][j].pc = "done" /\ Outcome(k, j) # Empty

\* C17: when every file read, oracle call and backoff sleep is eventually
\* over, every run ends: every task has its outcome, every worker has
\* stopped and the summary exists; and meanwhile no task makes more than
\* MAX_RETRIES calls.
C17_RunEnds ==
    /\ <>Finished
    /\ [](\A k \in DOMAIN targets : \A j \in DOMAIN rules :
             call[k][j].calls <= MAX_RETRIES)

\* C17 witness: a finished run in which the transport failed every call of
\* a task: the task slept twice, made its third call and has its outcome
\* from the third failure.
C17_Witness ==
    /\ Finished
    /\ \E k \in DOMAIN targets : \E j \in DOMAIN rules :
          /\ call[k][j].calls = MAX_RETRIES
          /\ Len(call[k][j].slept) = MAX_RETRIES - 1
          /\ Outage(call[k][j].last)
          /\ Outcome(k, j).pass = "false"

\* The fixes of the list that is being located (none when it is no array).
FixItems == IF fixesArr.t = "array" THEN fixesArr.items ELSE <<>>

\* C18: for every source text and every list of fixes, every call of
\* deriveLine returns an integer that is at least 1.
C18_LineAtLeastOne ==
    \A c \in DOMAIN returned : returned[c] \in Nat /\ returned[c] >= 1

\* A fix object whose line is a positive integer / a positive number.
IntegerLine(fx) ==
    fx.t = "object" /\ fx.line.t = "number" /\ fx.line.halves > 0
                    /\ fx.line.halves % 2 = 0
NumericLine(fx) ==
    fx.t = "object" /\ fx.line.t = "number" /\ fx.line.halves > 0
FirstOf(S) == CHOOSE i \in S : \A o \in S : i <= o

\* C19 as stated: when some fix carries a positive integer line, deriveLine
\* returns the line of the first fix that does, whatever the quotations are.
C19_FirstIntegerLine ==
    LET carriers == {i \in DOMAIN FixItems : IntegerLine(FixItems[i])}
    IN  carriers # {} =>
           \A c \in DOMAIN returned :
              2 * returned[c] = FixItems[FirstOf(carriers)].line.halves

\* C19 amended: when some fix carries a line that is a positive finite
\* number, deriveLine returns the integer part of the line of the first fix
\* that does, whatever the quotations are and wherever they stand.
C19_FirstNumericLine ==
    LET carriers == {i \in DOMAIN FixItems : NumericLine(FixItems[i])}
    IN  carriers # {} =>
           \A c \in DOMAIN returned :
              LET h == FixItems[FirstOf(carriers)].line.halves
              IN  /\ 2 * returned[c] <= h
                  /\ h < 2 * returned[c] + 2

\* C19 witness: line 7 was returned for a list whose first fix quotes a text
\* that stands on line 3 of the source and whose second fix has line 7.
C19_Witness ==
    /\ returned = <<7>>
    /\ src = <<"a", "\n", "b", "\n", "c">>
    /\ fixesArr = Array(<<Fix(Undefined, Undefined, Undefined, Str(<<"c">>)),
                          Fix(Num(14), Undefined, Undefined, Undefined)>>)

\* A quotation is found in the source by one of the strategies: as a
\* substring, in a line whatever the case, or after collapsing white space.
Found(text) ==
    /\ src # <<>>
    /\ \/ Includes(src, text)
       \/ \E i \in DOMAIN SplitLines(src) :
             Includes(ToLowerCase(SplitLines(src)[i]), ToLowerCase(text))
       \/ Includes(collapseWS(ToLowerCase(src)), collapseWS(ToLowerCase(text)))

\* The (key, fix) places of the list that hold a quotation found in the
\* source, and their rank in the order before, quote, original, fix by fix.
FoundPlaces ==
    {p \in (DOMAIN Keys) \X (DOMAIN FixItems) :
        /\ FixItems[p[2]].t = "object"
        /\ FixItems[p[2]][Keys[p[1]]].t = "string"
        /\ Trim(FixItems[p[2]][Keys[p[1]]].s) # <<>>
        /\ Found(FixItems[p[2]][Keys[p[1]]].s)}
Rank(p) == (p[1] - 1) * Len(FixItems) + p[2]

\* C20: when no fix carries an explicit line, the line returned is that of
\* the first quotation found in the source, in the order before, quote,
\* original and in array order within a field; a field of lower preference
\* decides only when no field of higher preference is found at all.
C20_FirstFoundFieldWins ==
    (\A i \in DOMAIN FixItems : ~NumericLine(FixItems[i])) /\ FoundPlaces # {} =>
       LET first == CHOOSE p \in FoundPlaces : \A q \in FoundPlaces : Rank(p) <= Rank(q)
       IN  \A c \in DOMAIN returned :
              returned[c] = findLineSmart(src, FixItems[first[2]][Keys[first[1]]].s)

\* C23: the delay of the k-th backoff of a task is 300 * 2^(k-1) plus a
\* jitter of at least 0 and less than 200: the first lies in [300, 500), the
\* second in [600, 800), there is no third, and the second is longer than
\* the first.
C23_BackoffDelays ==
    \A k \in DOMAIN targets : \A j \in DOMAIN rules :
       LET slept == call[k][j].slept
       IN  /\ Len(slept) <= 2
           /\ Len(slept) >= 1 => 300 <= slept[1] /\ slept[1] < 500
           /\ Len(slept) >= 2 => /\ 600 <= slept[2] /\ slept[2] < 800
                                 /\ slept[2] > slept[1]

\* C23 witness: a task slept the longest first delay and the shortest second one.
C23_Witness ==
    \E k \in DOMAIN targets : \E j \in DOMAIN rules :
       call[k][j].slept = <<499, 600>>

\* The line breaks of the source before offset idx.
BreaksBefore(idx) == Cardinality({p \in 1..idx : src[p] = "\n"})

\* C21: a non-empty quotation that occurs in the source as a substring is
\* found on line 1 + the number of line breaks before the start of its first
\* occurrence.
C21_ExactMatchLine ==
    (ln # <<>> /\ quotation # <<>> /\ Includes(src, quotation)) =>
       ln[1] = 1 + BreaksBefore(IndexOf(src, quotation))

\* C21 witness: a quotation found on the third line, after a line break
\* with a carriage return and one without.
C21_Witness ==
    /\ ln = <<3>>
    /\ src = <<"a", "\r", "\n", "b", "\r", "\n", "c">>
    /\ quotation = <<"c">>

\* C22: when no fix carries an explicit line and no quotation of any fix is
\* found in the source by any strategy (so also when the list is empty, is
\* no list, or the source is empty), deriveLine returns 1.
C22_NothingFoundIsLineOne ==
    ((\A i \in DOMAIN FixItems : ~NumericLine(FixItems[i])) /\ FoundPlaces = {}) =>
       \A c \in DOMAIN returned : returned[c] = 1

\* C22 witness: line 1 was returned for a source of two lines and a list
\* whose only quotations are two texts that are not in the source.
C22_Witness ==
    /\ returned = <<1>>
    /\ src = <<"a", "\r", "\n", "b">>
    /\ fixesArr = Array(<<Null,
                          Fix(Undefined, Str(<<"d">>), Str(<<"c">>), Undefined)>>)

\* The source and the quotation as the last strategy compares them, and the
\* offset of the quotation in the source then.
CollapsedSource == collapseWS(ToLowerCase(src))
CollapsedQuotation == collapseWS(ToLowerCase(quotation))
CollapsedOffset == IndexOf(CollapsedSource, CollapsedQuotation)

\* The exact scan and the scans line by line fail, the last strategy finds.
OnlyCollapsedFinds ==
    /\ src # <<>>
    /\ quotation # <<>>
    /\ ~Includes(src, quotation)
    /\ \A i \in DOMAIN SplitLines(src) :
          ~Includes(ToLowerCase(SplitLines(src)[i]), ToLowerCase(quotation))
    /\ CollapsedOffset >= 0

\* The sum, over the first i lines of the source, of the collapsed length of
\* the line plus 1.
RECURSIVE LineSum(_)
LineSum(i) ==
    IF i = 0 THEN 0
    ELSE LineSum(i - 1) + Len(collapseWS(ToLowerCase(SplitLines(src)[i]))) + 1

\* The lines of the characters of the source that stand at the offset in the
\* collapsed source: where the matched text begins.
BeginLines ==
    {1 + BreaksBefore(p - 1) :
        p \in {q \in 1..Len(src) :
                 /\ ~IsSpace(src[q])
                 /\ Len(collapseWS(ToLowerCase(SubSeq(src, 1, q)))) - 1 = CollapsedOffset}}

\* C30: when only the last strategy finds the quotation, at offset idx of
\* the collapsed source, the line returned is the smallest i whose LineSum
\* is at least idx; it is a line of the source, and it is not after the line
\* where the matched text begins.
C30_CollapsedMatchLine ==
    (ln # <<>> /\ OnlyCollapsedFinds) =>
       /\ ln[1] \in 1..Len(SplitLines(src))
       /\ LineSum(ln[1]) >= CollapsedOffset
       /\ \A i \in 1..(ln[1] - 1) : LineSum(i) < CollapsedOffset
       /\ \A b \in BeginLines : ln[1] <= b

\* C30 witness: the quotation "b c" is found on line 2 of a source whose
\* second line is "c b  c".
C30_Witness ==
    /\ ln = <<2>>
    /\ OnlyCollapsedFinds
    /\ BeginLines = {2}

\* C24: every rule result of the report keeps to the schema: its pass is a
\* boolean, whatever JSON object the oracle returned.
C24_SchemaEnforced ==
    \A k \in DOMAIN targets : \A j \in DOMAIN rules :
       call[k][j].pc = "done" => Outcome(k, j).pass \in {"true", "false"}

\* C26: in one task calls and sleeps alternate, from a first call to a last
\* one: while a call is in flight and when the task is over there is one
\* sleep less than calls; during a sleep there are as many, and the sleep
\* follows an error with a 429 or 5xx status that is not fatal and is not the
\* answer to the third call.
C26_CallsAndSleepsAlternate ==
    \A k \in DOMAIN targets : \A j \in DOMAIN rules :
       LET c == call[k][j]
       IN  /\ c.pc = "idle" => c.calls = 0 /\ c.slept = <<>>
           /\ c.pc \in {"call", "done"} => Len(c.slept) = c.calls - 1
           /\ c.pc = "sleep" =>
                 /\ Len(c.slept) = c.calls
                 /\ TransientStatus(c.last)
                 /\ ~FatalReply(c.last)
                 /\ c.calls < 3

\* C26 witness: a task is over after three calls and two sleeps.
C26_Witness ==
    \E k \in DOMAIN targets : \E j \in DOMAIN rules :
       /\ call[k][j].pc = "done"
       /\ call[k][j].calls = 3
       /\ Len(call[k][j].slept) = 2

\* C27: an error with a retryable status (429 or 5xx) and the type
\* insufficient_quota ends its task at once: it is never followed by a sleep
\* or another call, and the outcome has the quota rationale.
C27_FatalBeforeTransient ==
    \A k \in DOMAIN targets : \A j \in DOMAIN rules :
       (TransientStatus(call[k][j].last) /\ FatalReply(call[k][j].last)) =>
          /\ call[k][j].pc = "done"
          /\ Outcome(k, j).pass = "false"
          /\ Outcome(k, j).rationale = <<"LLM call failed: insufficient quota.">>

\* C27 witness: a 500 error of type insufficient_quota answered the first
\* call of a task, which is over after that one call.
C27_Witness ==
    \E k \in DOMAIN targets : \E j \in DOMAIN rules :
       /\ call[k][j].last = ErrQuota500
       /\ call[k][j].calls = 1
       /\ call[k][j].pc = "done"

\* The oracle calls in flight in the whole run.
CallsInFlight ==
    {t \in (DOMAIN targets) \X (DOMAIN rules) : call[t[1]][t[2]].pc = "call"}

\* C28: in every state the oracle calls in flight, and even the rule tasks
\* in flight, are at most min(FILE_CONCURRENCY, files) times
\* min(RULE_CONCURRENCY, rules).
C28_CallsBoundedByProduct ==
    LET bound == Min(Floor(FILE_CONCURRENCY), NumTargets)
                   * Min(Floor(RULE_CONCURRENCY), NumRules)
    IN  /\ Cardinality(CallsInFlight) <= bound
        /\ Cardinality({t \in (DOMAIN targets) \X (DOMAIN rules) :
                           t[2] \in RulesInFlight(t[1])}) <= bound

\* C28 witness: more calls are in flight than RULE_CONCURRENCY, as many as
\* the product allows, with rule tasks still waiting.
C28_Witness ==
    /\ Cardinality(CallsInFlight) > Floor(RULE_CONCURRENCY)
    /\ Cardinality(CallsInFlight) =
          Min(Floor(FILE_CONCURRENCY), NumTargets) * Min(Floor(RULE_CONCURRENCY), NumRules)
    /\ \E k \in DOMAIN targets : \E j \in DOMAIN rules :
          file[k] = "linting" /\ call[k][j].pc = "idle"

\* A limit a pool can run with: a number, and at least 1.
AtLeastOne(limit) == limit # NaN /\ limit.halves >= 2

\* C29: whatever is configured, a pool that has started with a task was
\* given an effective limit that is a number and at least 1, it started a
\* worker, and once it has returned every slot of its results is filled.
C29_LimitAtLeastOne ==
    /\ filePool # NoPool => AtLeastOne(FILE_CONCURRENCY)
    /\ \A k \in DOMAIN targets : rulePool[k] # NoPool => AtLeastOne(RULE_CONCURRENCY)
    /\ \A pool \in Pools :
          pool.n >= 1 =>
             /\ pool.workers >= 1
             /\ PoolDone(pool) => \A x \in DOMAIN pool.results : pool.results[x] # Empty

====
